---- MODULE Spec2Model ----
(***************************************************************************)
(* Model of the energy-share pipeline: src/main.py and src/lib (process,   *)
(* format, write, read).                                                   *)
(*                                                                         *)
(* Representation choices                                                  *)
(*  - a Python str that the code orders or compares (format_date,          *)
(*    strftime) is the sequence of its character codes, so that string     *)
(*    comparison is the lexicographic order Python applies;                *)
(*  - a (year, month) tuple is <<year, month>>, a date is <<y, m, d>>;     *)
(*  - a JSON sample is <<>> for null and <<v>> for the number v;           *)
(*  - a dotted series id is the sequence of its segments (str.split('.')); *)
(*  - a share (a float in the code) is the exact ratio                     *)
(*    [num |-> 100 * category_sum, den |-> total_sum];                     *)
(*  - a dict is a function; the empty dict is <<>>.                        *)
(***************************************************************************)
EXTENDS Integers, Sequences, FiniteSets, TLC

VARIABLES
    pc,                 \* position in the run
    api_response,       \* the fetched payload: a sequence of series
    interval,           \* extract_energy_data's interval argument
    energy_data,        \* extract_energy_data's mapping
    window_size,        \* calculate_monthly_rolling_averages' window_size
    dates,              \* the rolling result: period labels
    fossil_shares,      \* the rolling result: fossil shares
    renewable_shares,   \* the rolling result: renewable shares
    idx,                \* enumerate() index of the sample loop (stepwise runs)
    today,              \* date.today()
    yesterday,          \* calculate_last_year_average: yesterday
    start_date,         \* calculate_last_year_average: start_date
    years_needed,       \* calculate_last_year_average: years_needed
    years_done,         \* the years the fetch loop has been through
    all_daily_data,     \* calculate_last_year_average: all_daily_data
    window_dates,       \* calculate_last_year_average: window_dates
    fossil_ytd,         \* main: the estimate's fossil share
    renewable_ytd,      \* main: the estimate's renewable share
    fp_value,           \* format_precision: value
    min_sig_figs,       \* format_precision: min_sig_figs
    formatted,          \* format_precision: the value returned
    main_pc,            \* main: position in the run
    raw_file,           \* output/raw.json
    processed_file,     \* output/processed.json
    stdout              \* main: the lines it has printed

vars == <<pc, api_response, interval, energy_data, window_size, dates,
          fossil_shares, renewable_shares, idx, today, yesterday, start_date,
          years_needed, years_done, all_daily_data, window_dates, fossil_ytd,
          renewable_ytd, fp_value, min_sig_figs, formatted, main_pc, raw_file,
          processed_file, stdout>>

rollVars == <<window_size, dates, fossil_shares, renewable_shares>>
yearVars == <<today, yesterday, start_date, years_needed>>
estimateVars == <<years_done, all_daily_data, window_dates, fossil_ytd,
                  renewable_ytd>>
formatVars == <<fp_value, min_sig_figs, formatted>>
mainVars == <<main_pc, raw_file, processed_file, stdout>>
outputVars == <<formatVars, mainVars>>
laterVars == <<estimateVars, outputVars>>

-----------------------------------------------------------------------------
(* Values *)

None == <<>>
Some(v) == <<v>>

FOSSILS ==
    {"gas_recip", "gas_ocgt", "gas_ccgt", "gas_steam", "gas_lfg", "gas_wcmg",
     "distillate", "coal_brown", "coal_black"}

RENEWABLES ==
    {"solar_utility", "solar_rooftop", "wind", "hydro", "bioenergy_biomass",
     "bioenergy_biogas"}

Put(f, k, v) == [x \in (DOMAIN f) \cup {k} |-> IF x = k THEN v ELSE f[x]]

\* Python's order on tuples of ints and on strings: lexicographic.
SeqLT(a, b) ==
    \/ \E k \in 1..Len(a) :
          /\ k <= Len(b)
          /\ \A j \in 1..(k - 1) : a[j] = b[j]
          /\ a[k] < b[k]
    \/ /\ Len(a) < Len(b)
       /\ \A j \in 1..Len(a) : a[j] = b[j]

SeqLE(a, b) == a = b \/ SeqLT(a, b)

\* sorted(keys): ascending, smallest first.
RECURSIVE sorted(_)
sorted(S) ==
    IF S = {} THEN <<>>
    ELSE LET least == CHOOSE a \in S : \A b \in S : SeqLE(a, b)
         IN  <<least>> \o sorted(S \ {least})

-----------------------------------------------------------------------------
(* Calendar and formatting *)

IsLeap(y) == (y % 4 = 0 /\ y % 100 # 0) \/ y % 400 = 0

DaysInMonth(y, m) ==
    IF m = 2 THEN (IF IsLeap(y) THEN 29 ELSE 28)
    ELSE IF m \in {4, 6, 9, 11} THEN 30 ELSE 31

\* date + timedelta(days=1)
NextDay(d) ==
    IF d[3] < DaysInMonth(d[1], d[2]) THEN <<d[1], d[2], d[3] + 1>>
    ELSE IF d[2] < 12 THEN <<d[1], d[2] + 1, 1>>
    ELSE <<d[1] + 1, 1, 1>>

\* date - timedelta(days=1)
PrevDay(d) ==
    IF d[3] > 1 THEN <<d[1], d[2], d[3] - 1>>
    ELSE IF d[2] > 1 THEN <<d[1], d[2] - 1, DaysInMonth(d[1], d[2] - 1)>>
    ELSE <<d[1] - 1, 12, 31>>

\* date + timedelta(days=n), n >= 0
RECURSIVE AddDays(_, _)
AddDays(d, n) == IF n = 0 THEN d ELSE AddDays(NextDay(d), n - 1)

Digit(n) == 48 + n
Dash == 45

\* f"{n:04d}" and f"{n:02d}" for 0 <= n <= 9999 and 0 <= n <= 99
Pad4(n) ==
    <<Digit(n \div 1000), Digit((n \div 100) % 10), Digit((n \div 10) % 10),
      Digit(n % 10)>>
Pad2(n) == <<Digit(n \div 10), Digit(n % 10)>>

\* f"{year:04d}-{month:02d}"
format_date(year, month) == Pad4(year) \o <<Dash>> \o Pad2(month)

\* d.strftime('%Y-%m-%d')
strftime(d) == Pad4(d[1]) \o <<Dash>> \o Pad2(d[2]) \o <<Dash>> \o Pad2(d[3])

-----------------------------------------------------------------------------
(* extract_energy_data *)

\* the id test of the series loop
Qualifies(parts) ==
    Len(parts) >= 5 /\ parts[3] = "fuel_tech" /\ parts[5] = "energy"

Excluded(fuel_tech) == fuel_tech \in {"pumps", "battery_charging"}

\* history.get('interval', '1M' if interval == 'month' else '1D')
DataInterval(declared, itv) ==
    IF declared # "absent" THEN declared
    ELSE IF itv = "month" THEN "1M" ELSE "1D"

\* the monthly branch: month_offset, year_offset, month, year
MonthKey_norollover(start, i) ==
    LET month_offset == start[2] + i
        year_offset  == month_offset \div 12
        month        == (month_offset % 12) + 1
    IN  <<start[1] + year_offset, month>>
MonthKey(start, i) ==
    LET month_offset == start[2] + i
        year_offset  == (month_offset - 1) \div 12
        month        == ((month_offset - 1) % 12) + 1
    IN  <<start[1] + year_offset, month>>

\* the daily branch
DayKey(start, i) == strftime(AddDays(start, i))

DateKey(start, i, data_interval, itv) ==
    IF data_interval = "1M" \/ itv = "month" THEN MonthKey(start, i)
    ELSE DayKey(start, i)

\* one pass of the sample loop: enumerate() index i, 0-based
ProcessSample_nullAsZero(ed, series, i, itv) ==
    LET value    == series.data[i + 1]
        date_key == DateKey(series.start, i,
                            DataInterval(series.interval, itv), itv)
        inner    == IF date_key \in DOMAIN ed THEN ed[date_key] ELSE <<>>
    IN  Put(ed, date_key,
            Put(inner, series.id[4], IF value = None THEN 0 ELSE value[1]))
ProcessSample(ed, series, i, itv) ==
    LET value    == series.data[i + 1]
        date_key == DateKey(series.start, i,
                            DataInterval(series.interval, itv), itv)
        inner    == IF date_key \in DOMAIN ed THEN ed[date_key] ELSE <<>>
    IN  IF value # None
        THEN Put(ed, date_key, Put(inner, series.id[4], value[1]))
        ELSE ed

RECURSIVE ProcessSamples(_, _, _, _)
ProcessSamples(ed, series, i, itv) ==
    IF i >= Len(series.data) THEN ed
    ELSE ProcessSamples(ProcessSample(ed, series, i, itv), series, i + 1, itv)

\* one pass of the series loop
ProcessSeries(ed, series, itv) ==
    IF Qualifies(series.id) /\ ~Excluded(series.id[4])
    THEN ProcessSamples(ed, series, 0, itv)
    ELSE ed

RECURSIVE ExtractFrom(_, _, _, _)
ExtractFrom(ed, data_series, k, itv) ==
    IF k > Len(data_series) THEN ed
    ELSE ExtractFrom(ProcessSeries(ed, data_series[k], itv), data_series,
                     k + 1, itv)

extract_energy_data(response, itv) == ExtractFrom(<<>>, response, 1, itv)

extract_monthly_data(response) == extract_energy_data(response, "month")

-----------------------------------------------------------------------------
(* calculate_monthly_rolling_averages *)

\* the accumulators of one window after adding one sample
Accumulate_fossilOnly(acc, fuel_tech, value) ==
    [total     |-> IF fuel_tech \in FOSSILS THEN acc.total + value
                   ELSE acc.total,
     fossil    |-> IF fuel_tech \in FOSSILS THEN acc.fossil + value
                   ELSE acc.fossil,
     renewable |-> IF fuel_tech \notin FOSSILS /\ fuel_tech \in RENEWABLES
                   THEN acc.renewable + value ELSE acc.renewable]
Accumulate(acc, fuel_tech, value) ==
    [total     |-> acc.total + value,
     fossil    |-> IF fuel_tech \in FOSSILS THEN acc.fossil + value
                   ELSE acc.fossil,
     renewable |-> IF fuel_tech \notin FOSSILS /\ fuel_tech \in RENEWABLES
                   THEN acc.renewable + value ELSE acc.renewable]

RECURSIVE SumMonth(_, _, _)
SumMonth(acc, month_data, techs) ==
    IF techs = {} THEN acc
    ELSE LET ft == CHOOSE t \in techs : TRUE
         IN  SumMonth(Accumulate(acc, ft, month_data[ft]), month_data,
                      techs \ {ft})

\* the inner loops over window_dates
RECURSIVE SumWindow(_, _, _, _)
SumWindow(acc, data, wdates, k) ==
    IF k > Len(wdates) THEN acc
    ELSE SumWindow(SumMonth(acc, data[wdates[k]], DOMAIN data[wdates[k]]),
                   data, wdates, k + 1)

ZeroSums == [total |-> 0, fossil |-> 0, renewable |-> 0]

\* (category_sum / total_sum) * 100, as an exact ratio
Share(category_sum, total_sum) ==
    [num |-> 100 * category_sum, den |-> total_sum]

\* range(window_size - 1, len(sorted_dates)): the first index, 0-based
FirstIndex_late(ws) == ws
FirstIndex(ws) == ws - 1

\* sorted_dates[i - window_size + 1:i + 1], i 0-based
WindowDates_short(sorted_dates, i, ws) ==
    SubSeq(sorted_dates, i - ws + 3, i + 1)
WindowDates(sorted_dates, i, ws) == SubSeq(sorted_dates, i - ws + 2, i + 1)

\* if total_sum > 0
Emits_nonneg(total_sum) == total_sum >= 0
Emits(total_sum) == total_sum > 0

RECURSIVE RollFrom(_, _, _, _, _)
RollFrom(out, data, sorted_dates, i, ws) ==
    IF i >= Len(sorted_dates) THEN out
    ELSE LET sums == SumWindow(ZeroSums, data,
                               WindowDates(sorted_dates, i, ws), 1)
             p    == sorted_dates[i + 1]
             nxt  == IF Emits(sums.total)
                     THEN [dates |-> Append(out.dates, format_date(p[1], p[2])),
                           fossil_shares |->
                               Append(out.fossil_shares,
                                      Share(sums.fossil, sums.total)),
                           renewable_shares |->
                               Append(out.renewable_shares,
                                      Share(sums.renewable, sums.total))]
                     ELSE out
         IN  RollFrom(nxt, data, sorted_dates, i + 1, ws)

NoResults == [dates |-> <<>>, fossil_shares |-> <<>>, renewable_shares |-> <<>>]

calculate_monthly_rolling_averages(monthly_data, ws) ==
    LET sorted_dates == sorted(DOMAIN monthly_data)
    IN  IF sorted_dates = <<>> THEN NoResults
        ELSE RollFrom(NoResults, monthly_data, sorted_dates, FirstIndex(ws), ws)

process_monthly_energy_data(data, ws) ==
    calculate_monthly_rolling_averages(extract_monthly_data(data), ws)

-----------------------------------------------------------------------------
(* Bounds and inputs of the monthly run *)

MaxMonths == 3      \* samples per series of the monthly payload
MaxWindow == 2      \* largest window_size tried

SeriesId(fuel_tech) == <<"au", "nem", "fuel_tech", fuel_tech, "energy">>

MonthlyStart == <<2023, 11, 1>>

\* the samples a series of each technology may carry
SamplesOf(fuel_tech) ==
    IF fuel_tech = "coal_black" THEN {None, Some(2)}
    ELSE IF fuel_tech = "wind" THEN {None, Some(1)}
    ELSE {None, Some(-1), Some(0), Some(1)}

MonthlySeries(fuel_tech, data) ==
    [id |-> SeriesId(fuel_tech), start |-> MonthlyStart, interval |-> "1M",
     data |-> data]

MonthlyPayloads ==
    {<<MonthlySeries("coal_black", c), MonthlySeries("wind", w),
       MonthlySeries("battery_discharging", b)>> :
        c \in [1..MaxMonths -> SamplesOf("coal_black")],
        w \in [1..MaxMonths -> SamplesOf("wind")],
        b \in [1..MaxMonths -> SamplesOf("battery_discharging")]}

NoDate == <<>>

IdleYear ==
    /\ today = NoDate
    /\ yesterday = NoDate
    /\ start_date = NoDate
    /\ years_needed = {}

IdleRoll ==
    /\ window_size = 0
    /\ dates = <<>>
    /\ fossil_shares = <<>>
    /\ renewable_shares = <<>>

\* no share computed yet
NoShare == [num |-> 0, den |-> 0]

IdleEstimate ==
    /\ years_done = {}
    /\ all_daily_data = <<>>
    /\ window_dates = <<>>
    /\ fossil_ytd = NoShare
    /\ renewable_ytd = NoShare

IdleFormat ==
    /\ fp_value = 0
    /\ min_sig_figs = 0
    /\ formatted = [mant |-> 0, scale |-> 0]

\* a file that has not been written
NoFile == <<>>

IdleMain ==
    /\ main_pc = "start"
    /\ raw_file = NoFile
    /\ processed_file = NoFile
    /\ stdout = <<>>

-----------------------------------------------------------------------------
(* The monthly run: fetch, extract_monthly_data,                           *)
(* calculate_monthly_rolling_averages                                      *)

Init ==
    /\ pc = "start"
    /\ api_response = <<>>
    /\ interval = "month"
    /\ energy_data = <<>>
    /\ idx = 0
    /\ IdleRoll
    /\ IdleYear
    /\ IdleEstimate
    /\ IdleFormat
    /\ IdleMain

\* fetch_monthly_energy_data: the payload is whatever the API returns
FetchMonthly ==
    /\ pc = "start"
    /\ \E p \in MonthlyPayloads : api_response' = p
    /\ pc' = "fetched"
    /\ UNCHANGED <<interval, energy_data, idx>>
    /\ UNCHANGED rollVars
    /\ UNCHANGED yearVars
    /\ UNCHANGED laterVars

\* process_monthly_energy_data, first call
ExtractMonthly ==
    /\ pc = "fetched"
    /\ energy_data' = extract_monthly_data(api_response)
    /\ pc' = "extracted"
    /\ UNCHANGED <<api_response, interval, idx>>
    /\ UNCHANGED rollVars
    /\ UNCHANGED yearVars
    /\ UNCHANGED laterVars

\* process_monthly_energy_data, second call
CalculateRolling ==
    /\ pc = "extracted"
    /\ \E ws \in 1..MaxWindow :
          \E r \in {calculate_monthly_rolling_averages(energy_data, ws)} :
              /\ window_size' = ws
              /\ dates' = r.dates
              /\ fossil_shares' = r.fossil_shares
              /\ renewable_shares' = r.renewable_shares
    /\ pc' = "calculated"
    /\ UNCHANGED <<api_response, interval, energy_data, idx>>
    /\ UNCHANGED yearVars
    /\ UNCHANGED laterVars

Next == FetchMonthly \/ ExtractMonthly \/ CalculateRolling

Spec == Init /\ [][Next]_vars

-----------------------------------------------------------------------------
(* Calendar arithmetic and window sums stated independently of the code    *)

\* months since year 0 of a (year, month) pair, and back
MonthOrdinal(p) == p[1] * 12 + (p[2] - 1)
FromOrdinal(n) == <<n \div 12, (n % 12) + 1>>
MonthsAfter(p, n) == FromOrdinal(MonthOrdinal(p) + n)
MonthsBefore(p, n) == FromOrdinal(MonthOrdinal(p) - n)

Periods == DOMAIN energy_data

\* number of present periods before p in calendar order
Rank(p) ==
    Cardinality({q \in Periods : MonthOrdinal(q) < MonthOrdinal(p)})

\* the ws present periods ending at p
RankWindow(p, ws) ==
    UNION {{q \in Periods : Rank(q) \in (r - ws + 1)..r} : r \in {Rank(p)}}

\* the ws calendar months ending at p
CalendarWindow(p, ws) == {MonthsBefore(p, j) : j \in 0..(ws - 1)}

\* the (period, technology) entries of the periods W
PresentCells(W) ==
    UNION {{<<q, ft>> : ft \in DOMAIN energy_data[q]} : q \in W \cap Periods}

RECURSIVE CellSum(_)
CellSum(C) ==
    IF C = {} THEN 0
    ELSE LET c == CHOOSE x \in C : TRUE
         IN  energy_data[c[1]][c[2]] + CellSum(C \ {c})

TotalOver(W) == CellSum(PresentCells(W))
FossilOver(W) == CellSum({c \in PresentCells(W) : c[2] \in FOSSILS})
RenewableOver(W) == CellSum({c \in PresentCells(W) : c[2] \in RENEWABLES})
OtherCells(W) == {c \in PresentCells(W) : c[2] \notin FOSSILS \cup RENEWABLES}
OtherOver(W) == CellSum(OtherCells(W))

\* the period whose label is the k-th emitted date
PeriodOf(k) == CHOOSE p \in Periods : format_date(p[1], p[2]) = dates[k]

AllNonNegative ==
    \A p \in Periods : \A ft \in DOMAIN energy_data[p] : energy_data[p][ft] >= 0

EveryPeriodPositive == \A p \in Periods : TotalOver({p}) > 0

-----------------------------------------------------------------------------
(* C1: calculate_monthly_rolling_averages emits, in ascending period order, *)
(* exactly one result for each index i >= window_size - 1 whose window of   *)
(* the window_size present periods ending at sorted_periods[i] has          *)
(* total_sum > 0, and none for any other index; so it emits                 *)
(* len - window_size + 1 results when every window total is positive and    *)
(* nothing when fewer than window_size periods exist.                       *)
C1_RollingEmission ==
    pc = "calculated" =>
        \A ends \in {{p \in Periods : Rank(p) >= window_size - 1}} :
        \A total \in {[p \in ends |-> TotalOver(RankWindow(p, window_size))]} :
        \A exp \in {{p \in ends : total[p] > 0}} :
            LET n      == Cardinality(Periods)
                pos(p) == Cardinality({q \in exp : SeqLT(q, p)}) + 1
            IN  /\ Len(dates) = Cardinality(exp)
                /\ Len(fossil_shares) = Len(dates)
                /\ Len(renewable_shares) = Len(dates)
                /\ \A p \in exp : dates[pos(p)] = format_date(p[1], p[2])
                /\ \A k \in 1..(Len(dates) - 1) : SeqLT(dates[k], dates[k + 1])
                /\ exp = ends
                   => Len(dates) = (IF n >= window_size
                                    THEN n - window_size + 1 ELSE 0)
                /\ n < window_size => dates = <<>>

\* a run where one window is emitted and another, of total 0 or less, is skipped
C1_Witness ==
    /\ pc = "calculated"
    /\ Len(dates) >= 1
    /\ Len(dates) < Cardinality(Periods) - window_size + 1

(* C2 as stated: when every period's total is positive, every result has    *)
(* 0 <= fossil_share + renewable_share <= 100, with equality to 100 only    *)
(* when no technology outside the fossil and renewable sets is present in   *)
(* the window.                                                              *)
ShareSumNum(k) ==
    fossil_shares[k].num * renewable_shares[k].den
        + renewable_shares[k].num * fossil_shares[k].den
ShareSumDen(k) == fossil_shares[k].den * renewable_shares[k].den

C2_AsStated ==
    (pc = "calculated" /\ EveryPeriodPositive) =>
        \A k \in 1..Len(dates) :
            /\ ShareSumDen(k) > 0
            /\ 0 <= ShareSumNum(k)
            /\ ShareSumNum(k) <= 100 * ShareSumDen(k)
            /\ ShareSumNum(k) = 100 * ShareSumDen(k)
               => OtherCells(RankWindow(PeriodOf(k), window_size)) = {}

(* C2 amended: when every sample is non-negative and every period's total   *)
(* is positive, every result has 0 <= fossil_share + renewable_share <= 100 *)
(* in exact arithmetic, with equality to 100 exactly when the technologies  *)
(* outside the fossil and renewable sets sum to 0 over the window.          *)
C2_ShareSumBounded ==
    (pc = "calculated" /\ EveryPeriodPositive /\ AllNonNegative) =>
        \A k \in 1..Len(dates) :
            /\ ShareSumDen(k) > 0
            /\ 0 <= ShareSumNum(k)
            /\ ShareSumNum(k) <= 100 * ShareSumDen(k)
            /\ ShareSumNum(k) = 100 * ShareSumDen(k)
               <=> OtherOver(RankWindow(PeriodOf(k), window_size)) = 0

\* a result of share sum 100 whose window holds a zero sample of another
\* technology, and a result of share sum below 100
C2_Witness ==
    /\ pc = "calculated"
    /\ EveryPeriodPositive
    /\ AllNonNegative
    /\ \E k \in 1..Len(dates) :
          /\ ShareSumNum(k) = 100 * ShareSumDen(k)
          /\ OtherCells(RankWindow(PeriodOf(k), window_size)) # {}
    /\ \E k \in 1..Len(dates) : ShareSumNum(k) < 100 * ShareSumDen(k)

(* C3: every result for period P is computed over exactly window_size       *)
(* consecutive calendar months ending at P: all window_size calendar months *)
(* up to and including P are present in the mapping, and the shares are     *)
(* those of that calendar window (no earlier month is summed).              *)
C3_ConsecutiveCalendarMonths ==
    pc = "calculated" =>
        \A k \in 1..Len(dates) :
            LET W == CalendarWindow(PeriodOf(k), window_size)
            IN  /\ W \subseteq Periods
                /\ fossil_shares[k] = Share(FossilOver(W), TotalOver(W))
                /\ renewable_shares[k] = Share(RenewableOver(W), TotalOver(W))

\* a result is emitted for a period whose preceding calendar month is absent
C3_Witness ==
    /\ pc = "calculated"
    /\ window_size = 2
    /\ \E k \in 1..Len(dates) :
          MonthsBefore(PeriodOf(k), 1) \notin Periods

-----------------------------------------------------------------------------
(* The extraction run: extract_energy_data on payloads whose series ids,    *)
(* start dates and samples vary, at either granularity                      *)

MaxSamples == 2     \* longest data array of the extraction payloads

ExtractIds ==
    {<<"au", "nem", "fuel_tech", "wind", "energy">>,
     <<"au", "nem", "fuel_tech", "coal_black", "energy">>,
     <<"au", "nem", "fuel_tech", "pumps", "energy">>,
     <<"au", "nem", "fuel_tech", "wind", "market_value">>,
     <<"au", "nem", "fuel_tech", "wind", "emissions">>,
     <<"au", "nem", "fuel_tech", "wind">>,
     <<"au", "nem", "nsw1", "fuel_tech", "wind", "energy">>,
     <<"au", "nem", "fuel_tech", "wind", "energy", "v2">>}

ExtractStarts == {<<2023, 12, 31>>, <<2024, 1, 31>>}

ExtractData ==
    UNION {[1..n -> {None, Some(0), Some(3)}] : n \in 1..MaxSamples}

\* any series first, then possibly a second series of a well-formed id
ExtractFirst ==
    [id : ExtractIds, start : ExtractStarts, interval : {"absent"},
     data : ExtractData]
ExtractSecond ==
    [id : {SeriesId("wind"), SeriesId("coal_black")}, start : ExtractStarts,
     interval : {"absent"}, data : ExtractData]

ExtractPayloads ==
    {<<a>> : a \in ExtractFirst}
        \cup {<<a, b>> : a \in ExtractFirst, b \in ExtractSecond}

\* the caller's fetch: any payload, to be read at either granularity
FetchAny ==
    /\ pc = "start"
    /\ \E p \in ExtractPayloads : api_response' = p
    /\ \E itv \in {"month", "day"} : interval' = itv
    /\ pc' = "fetched"
    /\ UNCHANGED <<energy_data, idx>>
    /\ UNCHANGED rollVars
    /\ UNCHANGED yearVars
    /\ UNCHANGED laterVars

\* extract_energy_data(api_response, interval)
Extract ==
    /\ pc = "fetched"
    /\ energy_data' = extract_energy_data(api_response, interval)
    /\ pc' = "extracted"
    /\ UNCHANGED <<api_response, interval, idx>>
    /\ UNCHANGED rollVars
    /\ UNCHANGED yearVars
    /\ UNCHANGED laterVars

NextExtract == FetchAny \/ Extract

SpecExtract == Init /\ [][NextExtract]_vars

\* the period of sample i of a series, by calendar addition
CalendarKey(series, i) ==
    IF interval = "month" \/ series.interval = "1M"
    THEN MonthsAfter(<<series.start[1], series.start[2]>>, i)
    ELSE strftime(AddDays(series.start, i))

\* a series the extractor is to read: five segments, labelled
\* fuel_tech and energy, of a technology that generates
WellFormed(id) == Len(id) = 5 /\ id[3] = "fuel_tech" /\ id[5] = "energy"
Generating(id) == id[4] \notin {"pumps", "battery_charging"}

\* the qualifying series of a technology that carry a non-null sample at p
Sources(p, fuel_tech) ==
    {k \in 1..Len(api_response) :
        LET s == api_response[k]
        IN  /\ Len(s.id) >= 5
            /\ s.id[3] = "fuel_tech"
            /\ s.id[5] = "energy"
            /\ s.id[4] = fuel_tech
            /\ Generating(s.id)
            /\ \E i \in 0..(Len(s.data) - 1) :
                  s.data[i + 1] # None /\ CalendarKey(s, i) = p}

(* C6: extract_energy_data never materializes a null sample: the mapping    *)
(* holds an entry (period, fuel_tech) only if some qualifying series of     *)
(* that fuel_tech has a non-null sample at that period's index, its value   *)
(* is that of such a sample, and no period is present with an empty inner   *)
(* mapping (a period whose samples are all null is absent).                 *)
C6_NullNeverMaterialized ==
    pc = "extracted" =>
        \A p \in DOMAIN energy_data :
            /\ DOMAIN energy_data[p] # {}
            /\ \A ft \in DOMAIN energy_data[p] :
                  /\ Sources(p, ft) # {}
                  /\ \E k \in Sources(p, ft) :
                        \E i \in 0..(Len(api_response[k].data) - 1) :
                            /\ CalendarKey(api_response[k], i) = p
                            /\ api_response[k].data[i + 1]
                                   = Some(energy_data[p][ft])

\* a qualifying series with a null sample next to a non-null one: the null
\* sample's period is absent, the other present
C6_Witness ==
    /\ pc = "extracted"
    /\ \E k \in 1..Len(api_response) :
          LET s == api_response[k]
          IN  /\ WellFormed(s.id)
              /\ Generating(s.id)
              /\ Len(s.data) = 2
              /\ s.data[1] = None
              /\ s.data[2] = Some(0)
              /\ CalendarKey(s, 0) \notin DOMAIN energy_data
              /\ CalendarKey(s, 1) \in DOMAIN energy_data

(* C7: extract_energy_data processes a series only when its id is           *)
(* well-formed (five segments, the 3rd 'fuel_tech', the 5th 'energy'); any  *)
(* other series contributes no entry to the mapping.                        *)
C7_OnlyWellFormedIds ==
    pc = "extracted" =>
        \A p \in DOMAIN energy_data :
            \A ft \in DOMAIN energy_data[p] :
                \E k \in Sources(p, ft) : WellFormed(api_response[k].id)

\* a payload whose only series has a six-segment id, and the mapping is
\* not empty
C7_Witness ==
    /\ pc = "extracted"
    /\ Len(api_response) = 1
    /\ Len(api_response[1].id) = 6
    /\ energy_data # <<>>

-----------------------------------------------------------------------------
(* The sample loop of extract_energy_data, one sample per step, over a     *)
(* monthly series of KeySamples samples                                     *)

KeySamples == 240   \* samples of the long monthly series

KeyYears == {2023, 2024}

LongSeries(y, m, declared) ==
    [id |-> SeriesId("wind"), start |-> <<y, m, 1>>, interval |-> declared,
     data |-> [k \in 1..KeySamples |-> Some(1)]]

FetchLong ==
    /\ pc = "start"
    /\ \E y \in KeyYears, m \in 1..12, declared \in {"absent", "1M", "1D"} :
          api_response' = <<LongSeries(y, m, declared)>>
    /\ pc' = "sampling"
    /\ UNCHANGED <<interval, energy_data, idx>>
    /\ UNCHANGED rollVars
    /\ UNCHANGED yearVars
    /\ UNCHANGED laterVars

\* one pass of `for i, value in enumerate(data_array)` on the only series
ExtractSample ==
    /\ pc = "sampling"
    /\ Qualifies(api_response[1].id)
    /\ ~Excluded(api_response[1].id[4])
    /\ idx < Len(api_response[1].data)
    /\ energy_data' = ProcessSample(energy_data, api_response[1], idx, interval)
    /\ idx' = idx + 1
    /\ UNCHANGED <<pc, api_response, interval>>
    /\ UNCHANGED rollVars
    /\ UNCHANGED yearVars
    /\ UNCHANGED laterVars

\* the loop ends and extract_energy_data returns
ReturnExtracted ==
    /\ pc = "sampling"
    /\ idx = Len(api_response[1].data)
    /\ pc' = "extracted"
    /\ UNCHANGED <<api_response, interval, energy_data, idx>>
    /\ UNCHANGED rollVars
    /\ UNCHANGED yearVars
    /\ UNCHANGED laterVars

NextMonthKey == FetchLong \/ ExtractSample \/ ReturnExtracted

SpecMonthKey == Init /\ [][NextMonthKey]_vars

\* the calendar month before p
PrevMonth(p) == IF p[2] = 1 THEN <<p[1] - 1, 12>> ELSE <<p[1], p[2] - 1>>

(* C5: in monthly extraction the period key of sample i is the calendar     *)
(* month i months after the start month, for every start month and every    *)
(* 0 <= i < KeySamples: after idx samples the keys are the start month and  *)
(* the idx - 1 calendar months that follow it, each with month in 1..12.    *)
C5_MonthKeyIsCalendarAddition ==
    pc \in {"sampling", "extracted"} =>
        LET first == <<api_response[1].start[1], api_response[1].start[2]>>
            keys  == DOMAIN energy_data
        IN  /\ Cardinality(keys) = idx
            /\ idx > 0 => first \in keys
            /\ \A p \in keys :
                  /\ Len(p) = 2
                  /\ p[2] \in 1..12
                  /\ p = first \/ PrevMonth(p) \in keys

\* start November: sample 2 is January of the following year, and the last
\* of the 240 samples is October twenty years on
C5_Witness ==
    /\ pc = "extracted"
    /\ idx = 240
    /\ api_response[1].start = <<2023, 11, 1>>
    /\ <<2024, 1>> \in DOMAIN energy_data
    /\ <<2043, 10>> \in DOMAIN energy_data
    /\ <<2043, 11>> \notin DOMAIN energy_data

-----------------------------------------------------------------------------
(* The end-to-end run: process_monthly_energy_data(data, window_size=12)   *)
(* on one month more than the window of one fossil and one renewable       *)
(* series with positive samples                                            *)

DefaultWindow == 12
E2EMaxValue == 2    \* largest sample of the end-to-end payloads

E2EMonths == DefaultWindow + 1

\* a samples until month s, b samples after it
StepData(a, b, s) == [k \in 1..E2EMonths |-> Some(IF k <= s THEN a ELSE b)]

E2ESeries(fuel_tech, m, data) ==
    [id |-> SeriesId(fuel_tech), start |-> <<2023, m, 1>>, interval |-> "1M",
     data |-> data]

FetchE2E ==
    /\ pc = "start"
    /\ \E m \in 1..12, s \in 0..E2EMonths :
          \E a, b, c, d \in 1..E2EMaxValue :
              api_response' = <<E2ESeries("coal_black", m, StepData(a, b, s)),
                                E2ESeries("wind", m, StepData(c, d, s))>>
    /\ pc' = "fetched"
    /\ UNCHANGED <<interval, energy_data, idx>>
    /\ UNCHANGED rollVars
    /\ UNCHANGED yearVars
    /\ UNCHANGED laterVars

\* main's call process_monthly_energy_data(data, window_size=12)
ProcessE2E ==
    /\ pc = "fetched"
    /\ \E r \in {process_monthly_energy_data(api_response, DefaultWindow)} :
          /\ dates' = r.dates
          /\ fossil_shares' = r.fossil_shares
          /\ renewable_shares' = r.renewable_shares
    /\ energy_data' = extract_monthly_data(api_response)
    /\ window_size' = DefaultWindow
    /\ pc' = "calculated"
    /\ UNCHANGED <<api_response, interval, idx>>
    /\ UNCHANGED yearVars
    /\ UNCHANGED laterVars

NextE2E == FetchE2E \/ ProcessE2E

SpecE2E == Init /\ [][NextE2E]_vars

\* the sum of samples lo..hi of a data array, by hand
RECURSIVE HandSum(_, _, _)
HandSum(data, lo, hi) ==
    IF lo > hi THEN 0 ELSE data[lo][1] + HandSum(data, lo + 1, hi)

\* the ratios a and b are the same number
SameRatio(a, b) == a.num * b.den = b.num * a.den

\* result j is dated month `last` of the payload and holds the shares of
\* the DefaultWindow months ending there
HandComputed(j, last) ==
    LET fossil    == api_response[1]
        renewable == api_response[2]
        first     == last - DefaultWindow + 1
        fsum      == HandSum(fossil.data, first, last)
        rsum      == HandSum(renewable.data, first, last)
        label     == MonthsAfter(<<fossil.start[1], fossil.start[2]>>, last - 1)
    IN  /\ dates[j] = format_date(label[1], label[2])
        /\ SameRatio(fossil_shares[j], [num |-> 100 * fsum, den |-> fsum + rsum])
        /\ SameRatio(renewable_shares[j],
                     [num |-> 100 * rsum, den |-> fsum + rsum])

(* C4 as stated: on 13 consecutive months of one fossil and one renewable   *)
(* series with positive values, process_monthly_energy_data(window_size=12) *)
(* returns exactly one dated share pair, with the shares computed by hand   *)
(* over the window.                                                         *)
C4_AsStated ==
    pc = "calculated" =>
        /\ Len(dates) = 1
        /\ Len(fossil_shares) = 1
        /\ Len(renewable_shares) = 1
        /\ HandComputed(1, E2EMonths)

(* C4 amended: on 13 consecutive months it returns exactly two dated share  *)
(* pairs, for the 12th and the 13th month, each with the shares             *)
(* 100 * category_sum / total_sum computed by hand over the 12 months       *)
(* ending at its month.                                                     *)
C4_TwoSharePairs ==
    pc = "calculated" =>
        /\ Len(dates) = 2
        /\ Len(fossil_shares) = 2
        /\ Len(renewable_shares) = 2
        /\ HandComputed(1, DefaultWindow)
        /\ HandComputed(2, DefaultWindow + 1)

\* a payload from November whose first and last months differ from the
\* rest: the two results are dated October and November and differ
C4_Witness ==
    /\ pc = "calculated"
    /\ api_response[1].start = <<2023, 11, 1>>
    /\ dates = <<format_date(2024, 10), format_date(2024, 11)>>
    /\ ~SameRatio(fossil_shares[1], fossil_shares[2])

-----------------------------------------------------------------------------
(* The daily extraction: extract_energy_data(data, interval='day') on      *)
(* series that declare '1M', '1D' or no interval                           *)

MaxDaily == 2       \* longest data array of the daily payloads

DailyStarts == {<<2023, 12, 31>>, <<2024, 2, 28>>}

DailyData == UNION {[1..n -> {None, Some(1)}] : n \in 1..MaxDaily}

DailySeries(fuel_tech) ==
    [id : {SeriesId(fuel_tech)}, start : DailyStarts,
     interval : {"absent", "1M", "1D"}, data : DailyData]

DailyPayloads ==
    {<<a>> : a \in DailySeries("wind")}
        \cup {<<a, b>> : a \in DailySeries("wind"), b \in DailySeries("coal_black")}

\* fetch_daily_energy_data(year), read with interval='day'
FetchDaily ==
    /\ pc = "start"
    /\ \E p \in DailyPayloads : api_response' = p
    /\ interval' = "day"
    /\ pc' = "fetched"
    /\ UNCHANGED <<energy_data, idx>>
    /\ UNCHANGED rollVars
    /\ UNCHANGED yearVars
    /\ UNCHANGED laterVars

NextDaily == FetchDaily \/ Extract

SpecDaily == Init /\ [][NextDaily]_vars

IsDigit(c) == c \in 48..57

\* a str of the form YYYY-MM-DD
IsIsoDate(key) ==
    /\ Len(key) = 10
    /\ key[5] = Dash
    /\ key[8] = Dash
    /\ \A j \in {1, 2, 3, 4, 6, 7, 9, 10} : IsDigit(key[j])

(* C8: in daily extraction every key of the mapping is an ISO 'YYYY-MM-DD'  *)
(* string, the series start date plus i days for the sample index i that    *)
(* produced it, whatever interval the series' history block declares: the   *)
(* keys are exactly the dates start + i days of the non-null samples.       *)
C8_DailyKeysAreIsoDates ==
    (pc = "extracted" /\ interval = "day") =>
        /\ \A key \in DOMAIN energy_data : IsIsoDate(key)
        /\ DOMAIN energy_data =
               {strftime(AddDays(api_response[k].start, i - 1)) :
                    <<k, i>> \in {x \in (1..Len(api_response)) \X (1..MaxDaily) :
                                     /\ x[2] <= Len(api_response[x[1]].data)
                                     /\ api_response[x[1]].data[x[2]] # None}}

\* a daily extraction that keyed a sample by a (year, month) tuple
C8_Witness ==
    /\ pc = "extracted"
    /\ interval = "day"
    /\ api_response[1].interval = "1M"
    /\ <<2023, 12>> \in DOMAIN energy_data

\* the keys of the series that declare '1D' or nothing, for comparison:
\* these are the ISO dates start + i days, across a year end and a leap day
DailyKeysWhenNotMonthly ==
    (/\ pc = "extracted"
     /\ interval = "day"
     /\ \A k \in 1..Len(api_response) : api_response[k].interval # "1M")
        => C8_DailyKeysAreIsoDates

-----------------------------------------------------------------------------
(* The trailing-year date range of calculate_last_year_average             *)

TodayYears == {2000, 2023, 2024, 2025, 2100}

Todays ==
    {<<y, m, d>> : y \in TodayYears, m \in 1..12, d \in 1..31} \cap
        {t \in TodayYears \X (1..12) \X (1..31) : t[3] <= DaysInMonth(t[1], t[2])}

\* date.today()
ReadToday ==
    /\ pc = "start"
    /\ \E t \in Todays : today' = t
    /\ pc' = "today"
    /\ UNCHANGED <<api_response, interval, energy_data, idx, yesterday,
                   start_date, years_needed>>
    /\ UNCHANGED rollVars
    /\ UNCHANGED laterVars

\* date.replace(year=...): defined only when the day exists in that year
ReplaceYearDefined(d, year) == d[3] <= DaysInMonth(year, d[2])
ReplaceYear(d, year) == <<year, d[2], d[3]>>

\* start_date = one_year_ago + timedelta(days=1)
StartDate_sameDay(one_year_ago) == one_year_ago
StartDate(one_year_ago) == NextDay(one_year_ago)

\* yesterday, one_year_ago, start_date, years_needed; replace() raises
\* ValueError when the day does not exist a year earlier
ComputeRange ==
    /\ pc = "today"
    /\ yesterday' = PrevDay(today)
    /\ IF ReplaceYearDefined(yesterday', yesterday'[1] - 1)
       THEN LET one_year_ago == ReplaceYear(yesterday', yesterday'[1] - 1)
            IN  /\ start_date' = StartDate(one_year_ago)
                /\ years_needed' = {start_date'[1], yesterday'[1]}
                /\ pc' = "ranged"
       ELSE /\ pc' = "ValueError"
            /\ UNCHANGED <<start_date, years_needed>>
    /\ UNCHANGED <<api_response, interval, energy_data, idx, today>>
    /\ UNCHANGED rollVars
    /\ UNCHANGED laterVars

NextYear == ReadToday \/ ComputeRange

SpecYear == Init /\ [][NextYear]_vars

\* days from 0001-01-01 to d, by the civil calendar
DaysBeforeYear(y) ==
    365 * (y - 1) + ((y - 1) \div 4) - ((y - 1) \div 100) + ((y - 1) \div 400)
DaysBeforeMonth(y, m) ==
    LET cum == <<0, 31, 59, 90, 120, 151, 181, 212, 243, 273, 304, 334>>
    IN  cum[m] + (IF m > 2 /\ IsLeap(y) THEN 1 ELSE 0)
Ordinal(d) == DaysBeforeYear(d[1]) + DaysBeforeMonth(d[1], d[2]) + d[3]

RangeDays == Ordinal(yesterday) - Ordinal(start_date) + 1

RangeHasLeapDay ==
    \E y \in start_date[1]..yesterday[1] :
        /\ IsLeap(y)
        /\ Ordinal(start_date) <= Ordinal(<<y, 2, 29>>)
        /\ Ordinal(<<y, 2, 29>>) <= Ordinal(yesterday)

RangeIsTrailingYear ==
    /\ Ordinal(yesterday) = Ordinal(today) - 1
    /\ RangeDays = (IF RangeHasLeapDay THEN 366 ELSE 365)
    /\ start_date[1]..yesterday[1] \subseteq years_needed

(* C9: for every value of today the range [window_start, yesterday] of      *)
(* calculate_last_year_average holds exactly 365 calendar days when it      *)
(* contains no Feb 29 and 366 when it does, and the years fetched cover     *)
(* every date of the range.                                                 *)
C9_RangeIsTrailingYear ==
    pc \notin {"start", "today"} => (pc = "ranged" /\ RangeIsTrailingYear)

\* today is 1 March 2024: no range is derived
C9_Witness ==
    /\ pc = "ValueError"
    /\ yesterday = <<2024, 2, 29>>
    /\ start_date = NoDate

\* for comparison: whenever a range is derived it is the trailing year
RangeWhenDerived == pc = "ranged" => RangeIsTrailingYear

(* C10: when yesterday is Feb 29 (today is Mar 1 of a leap year)            *)
(* calculate_last_year_average applies a deterministic fallback for the     *)
(* prior-year date and still derives a window_start instead of failing.     *)
C10_LeapDayFallback ==
    (/\ pc \notin {"start", "today"}
     /\ today[2] = 3
     /\ today[3] = 1
     /\ IsLeap(today[1]))
        => (pc = "ranged" /\ start_date # NoDate)

\* today is 1 March 2000: replace(year=1999) raised
C10_Witness ==
    /\ pc = "ValueError"
    /\ today = <<2000, 3, 1>>

-----------------------------------------------------------------------------
(* The trailing-year estimate: the fetch loop, the window filter and the    *)
(* sums of calculate_last_year_average                                      *)

MaxDays == 2        \* longest data array of a year's daily payload

\* 1 Jan (one year needed), 1 Mar after a leap day, 1 Mar a year later
EstimateTodays == {<<2024, 1, 1>>, <<2024, 3, 1>>, <<2025, 3, 1>>}

\* date.today(), on the days above
ReadClock ==
    /\ pc = "start"
    /\ \E t \in EstimateTodays : today' = t
    /\ pc' = "today"
    /\ UNCHANGED <<api_response, interval, energy_data, idx, yesterday,
                   start_date, years_needed>>
    /\ UNCHANGED rollVars
    /\ UNCHANGED laterVars

YearData == UNION {[1..n -> {None, Some(0), Some(1)}] : n \in 1..MaxDays}

\* what fetch_daily_energy_data(year) may return: a daily wind series that
\* starts on the eve of the window or on its last day, alone or with one
\* day of black coal, or a wind series that declares '1M'
YearPayloads ==
    LET winds   == [id : {SeriesId("wind")},
                    start : {PrevDay(start_date), yesterday},
                    interval : {"1D"}, data : YearData]
        coal    == [id |-> SeriesId("coal_black"), start |-> start_date,
                    interval |-> "1D", data |-> <<Some(1)>>]
        monthly == [id |-> SeriesId("wind"), start |-> start_date,
                    interval |-> "1M", data |-> <<Some(1)>>]
    IN  {<<w>> : w \in winds} \cup {<<w, coal>> : w \in winds}
            \cup {<<monthly>>}

\* dict.update: the other mapping's entries replace entries of the same key
Update(d, other) ==
    [k \in (DOMAIN d) \cup (DOMAIN other) |->
        IF k \in DOMAIN other THEN other[k] ELSE d[k]]

\* one pass of the loop over years_needed, in the set's iteration order
FetchYear ==
    /\ pc = "ranged"
    /\ \E year \in years_needed \ years_done :
          \E data \in YearPayloads :
              /\ all_daily_data' =
                     Update(all_daily_data, extract_energy_data(data, "day"))
              /\ years_done' = years_done \cup {year}
    /\ UNCHANGED <<pc, api_response, interval, energy_data, idx>>
    /\ UNCHANGED <<window_dates, fossil_ytd, renewable_ytd>>
    /\ UNCHANGED rollVars
    /\ UNCHANGED yearVars
    /\ UNCHANGED outputVars

\* start_date_str <= date_str <= end_date_str
InWindow(date_str) ==
    /\ SeqLE(strftime(start_date), date_str)
    /\ SeqLE(date_str, strftime(yesterday))

\* window_dates: sorted() and the comparisons with a str raise TypeError
\* when a key is a (year, month) tuple
FilterWindow ==
    /\ pc = "ranged"
    /\ years_done = years_needed
    /\ IF \E k \in DOMAIN all_daily_data : Len(k) = 2
       THEN /\ pc' = "TypeError"
            /\ UNCHANGED window_dates
       ELSE /\ window_dates' =
                   SelectSeq(sorted(DOMAIN all_daily_data), InWindow)
            /\ pc' = "filtered"
    /\ UNCHANGED <<api_response, interval, energy_data, idx>>
    /\ UNCHANGED <<years_done, all_daily_data, fossil_ytd, renewable_ytd>>
    /\ UNCHANGED rollVars
    /\ UNCHANGED yearVars
    /\ UNCHANGED outputVars

\* print(f"Using {len(window_dates)} days from {window_dates[0]} to
\* {window_dates[-1]}"): indexing an empty list raises IndexError
PrintWindow ==
    /\ pc = "filtered"
    /\ pc' = IF window_dates = <<>> THEN "IndexError" ELSE "printed"
    /\ UNCHANGED <<api_response, interval, energy_data, idx>>
    /\ UNCHANGED rollVars
    /\ UNCHANGED yearVars
    /\ UNCHANGED estimateVars
    /\ UNCHANGED outputVars

\* return 0, 0
ZeroShare == [num |-> 0, den |-> 1]

\* the sums over window_dates and the two returns
SumYear ==
    /\ pc = "printed"
    /\ \E sums \in {SumWindow(ZeroSums, all_daily_data, window_dates, 1)} :
          IF sums.total > 0
          THEN /\ fossil_ytd' = Share(sums.fossil, sums.total)
               /\ renewable_ytd' = Share(sums.renewable, sums.total)
          ELSE /\ fossil_ytd' = ZeroShare
               /\ renewable_ytd' = ZeroShare
    /\ pc' = "estimated"
    /\ UNCHANGED <<api_response, interval, energy_data, idx>>
    /\ UNCHANGED <<years_done, all_daily_data, window_dates>>
    /\ UNCHANGED rollVars
    /\ UNCHANGED yearVars
    /\ UNCHANGED outputVars

NextEstimate ==
    ReadClock \/ ComputeRange \/ FetchYear \/ FilterWindow \/ PrintWindow
        \/ SumYear

SpecEstimate == Init /\ [][NextEstimate]_vars

\* the date an ISO 'YYYY-MM-DD' key names
KeyDate(key) ==
    <<1000 * (key[1] - 48) + 100 * (key[2] - 48) + 10 * (key[3] - 48)
          + (key[4] - 48),
      10 * (key[6] - 48) + (key[7] - 48),
      10 * (key[9] - 48) + (key[10] - 48)>>

\* the merged days that lie in [start_date, yesterday], by the calendar
DaysInRange ==
    {key \in DOMAIN all_daily_data :
        /\ Ordinal(start_date) <= Ordinal(KeyDate(key))
        /\ Ordinal(KeyDate(key)) <= Ordinal(yesterday)}

RECURSIVE DayCellSum(_)
DayCellSum(C) ==
    IF C = {} THEN 0
    ELSE LET c == CHOOSE x \in C : TRUE
         IN  all_daily_data[c[1]][c[2]] + DayCellSum(C \ {c})

\* total_sum over the days of the range
RangeTotal ==
    DayCellSum(UNION {{<<key, ft>> : ft \in DOMAIN all_daily_data[key]} :
                          key \in DaysInRange})

\* the function has returned or raised after merging ISO-dated days only
EstimateEnded ==
    /\ pc \in {"IndexError", "estimated"}
    /\ \A key \in DOMAIN all_daily_data : IsIsoDate(key)

(* C11: calculate_last_year_average returns (0, 0) without raising whenever *)
(* the total over the days of [start_date, yesterday] is 0, the case where  *)
(* no merged day lies in the range (empty window) included.                 *)
C11_ZeroTotalReturnsZero ==
    (EstimateEnded /\ RangeTotal = 0)
        => /\ pc = "estimated"
           /\ fossil_ytd = ZeroShare
           /\ renewable_ytd = ZeroShare

\* both years fetched, no merged day in the range: the print raised
C11_Witness ==
    /\ pc = "IndexError"
    /\ years_done = {2024, 2025}
    /\ all_daily_data # <<>>
    /\ DaysInRange = {}
    /\ fossil_ytd = NoShare

\* for comparison: a window that holds days whose total is 0 returns (0, 0)
ZeroTotalOfDaysReturnsZero ==
    (EstimateEnded /\ DaysInRange # {} /\ RangeTotal = 0)
        => /\ pc = "estimated"
           /\ fossil_ytd = ZeroShare
           /\ renewable_ytd = ZeroShare

\* for comparison: the filter keeps exactly the days of the range
FilterKeepsRange ==
    pc \in {"filtered", "printed", "IndexError", "estimated"}
        => {window_dates[k] : k \in 1..Len(window_dates)} = DaysInRange

\* a window that holds days whose total is 0 was summed
ZeroTotalOfDays ==
    pc = "estimated" /\ DaysInRange # {} /\ RangeTotal = 0

-----------------------------------------------------------------------------
(* format_precision                                                         *)

MaxFormatValue == 12345     \* largest |value| formatted
MaxSigFigs == 4             \* largest min_sig_figs (4 is the default)

\* a caller passes an integer-valued number and a min_sig_figs
CallFormatPrecision ==
    /\ pc = "start"
    /\ \E v \in (-MaxFormatValue)..MaxFormatValue : fp_value' = v
    /\ \E n \in 1..MaxSigFigs : min_sig_figs' = n
    /\ pc' = "formatting"
    /\ UNCHANGED <<api_response, interval, energy_data, idx, formatted>>
    /\ UNCHANGED rollVars
    /\ UNCHANGED yearVars
    /\ UNCHANGED estimateVars
    /\ UNCHANGED mainVars

abs(v) == IF v < 0 THEN -v ELSE v

RECURSIVE Pow10(_)
Pow10(n) == IF n = 0 THEN 1 ELSE 10 * Pow10(n - 1)

\* a number as the exact ratio num / den, den > 0; the integer v is v / 1
Ratio(n, d) == [num |-> n, den |-> d]

\* a returned number as mant / 10^scale: scale = 0 is an int, otherwise a
\* float written without trailing zeros
RECURSIVE Decimal(_, _)
Decimal(mant, scale) ==
    IF scale > 0 /\ mant % 10 = 0 THEN Decimal(mant \div 10, scale - 1)
    ELSE [mant |-> mant, scale |-> scale]

\* math.floor(math.log10(n / d)) for n, d >= 1
RECURSIVE FloorLog10(_, _)
FloorLog10(n, d) ==
    IF n < d THEN FloorLog10(10 * n, d) - 1
    ELSE IF n < 10 * d THEN 0
    ELSE 1 + FloorLog10(n, 10 * d)

\* round(value, ndigits): the nearest multiple of 10^(-ndigits), a tie
\* going to the even multiple
round(v, ndigits) ==
    LET n  == abs(v.num) * Pow10(IF ndigits > 0 THEN ndigits ELSE 0)
        d  == v.den * Pow10(IF ndigits < 0 THEN -ndigits ELSE 0)
        q  == n \div d
        r  == n % d
        up == 2 * r > d \/ (2 * r = d /\ q % 2 = 1)
        m  == (IF up THEN q + 1 ELSE q)
                  * Pow10(IF ndigits < 0 THEN -ndigits ELSE 0)
    IN  [mant  |-> IF v.num < 0 THEN -m ELSE m,
         scale |-> IF ndigits > 0 THEN ndigits ELSE 0]

\* int(rounded) when rounded is a whole number, otherwise the float of
\* rounded written without trailing zeros
format_precision(v, sig_figs) ==
    IF v.num = 0 THEN Decimal(0, 0)
    ELSE LET magnitude == FloorLog10(abs(v.num), v.den)
             rounded   == round(v, -magnitude + sig_figs - 1)
         IN  Decimal(rounded.mant, rounded.scale)

\* the body of format_precision
FormatPrecision ==
    /\ pc = "formatting"
    /\ formatted' = format_precision(Ratio(fp_value, 1), min_sig_figs)
    /\ pc' = "formatted"
    /\ UNCHANGED <<api_response, interval, energy_data, idx, fp_value,
                   min_sig_figs>>
    /\ UNCHANGED rollVars
    /\ UNCHANGED yearVars
    /\ UNCHANGED estimateVars
    /\ UNCHANGED mainVars

NextFormat == CallFormatPrecision \/ FormatPrecision

SpecFormat == Init /\ [][NextFormat]_vars

\* the number of digits left of the decimal point
IntegerDigits(v) == FloorLog10(abs(v), 1) + 1

(* C12: format_precision never truncates digits left of the decimal point:  *)
(* for every integer-valued input and every min_sig_figs >= 1, inputs with  *)
(* more integer digits than min_sig_figs included, the result is the input  *)
(* itself with its sign, and format_precision(0) is 0.                      *)
C12_IntegerDigitsPreserved ==
    pc = "formatted" => formatted = [mant |-> fp_value, scale |-> 0]

\* 12345 with the default min_sig_figs came back as 12340
C12_Witness ==
    /\ pc = "formatted"
    /\ fp_value = 12345
    /\ min_sig_figs = 4
    /\ formatted = [mant |-> 12340, scale |-> 0]

\* for comparison: an input with no more integer digits than min_sig_figs
\* comes back unchanged
FewDigitsPreserved ==
    (/\ pc = "formatted"
     /\ fp_value # 0
     /\ IntegerDigits(fp_value) <= min_sig_figs)
        => formatted = [mant |-> fp_value, scale |-> 0]

\* for comparison: otherwise the result is a multiple of the power of ten
\* that min_sig_figs leaves, at most half of it away from the input
ManyDigitsRounded ==
    (/\ pc = "formatted"
     /\ fp_value # 0
     /\ IntegerDigits(fp_value) > min_sig_figs)
        => \A m \in {Pow10(IntegerDigits(fp_value) - min_sig_figs)} :
              /\ formatted.scale = 0
              /\ formatted.mant % m = 0
              /\ 2 * abs(formatted.mant - fp_value) <= m

-----------------------------------------------------------------------------
(* main                                                                     *)

DefaultSigFigs == 4     \* format_precision's default min_sig_figs

\* the months before the last of the first 12-month window
HeadMonths == DefaultWindow - 1

\* the first HeadMonths samples, all equal to v, then the samples of tail
MainData(v, tail) == [k \in 1..HeadMonths |-> v] \o tail

\* what fetch_monthly_energy_data may return to main: black coal from
\* January 2023, over 11 months (too few), 12 months of zeros, 12 and 13
\* months, a null December, a null January after 12 months, and a zero
\* total for the window that ends in January
MainPayloads ==
    {<<[id |-> SeriesId("coal_black"), start |-> <<2023, 1, 1>>,
        interval |-> "1M", data |-> d]>> :
        d \in {MainData(Some(1), <<>>),
               MainData(Some(0), <<Some(0)>>),
               MainData(Some(1), <<Some(1)>>),
               MainData(Some(1), <<Some(1), Some(1)>>),
               MainData(Some(1), <<None, Some(1)>>),
               MainData(Some(1), <<Some(1), None, Some(1)>>),
               MainData(Some(0), <<Some(1), Some(-1), Some(1)>>)}}

\* ensure_output_directory, fetch_monthly_energy_data(region="_all");
\* raise_for_status may raise
MainFetch ==
    /\ main_pc = "start"
    /\ \/ /\ \E p \in MainPayloads : api_response' = p
          /\ main_pc' = "fetched"
       \/ /\ main_pc' = "HTTPError"
          /\ UNCHANGED api_response
    /\ stdout' = Append(stdout, "Step 1: Fetching monthly data")
    /\ UNCHANGED <<pc, interval, energy_data, idx, raw_file, processed_file>>
    /\ UNCHANGED rollVars
    /\ UNCHANGED yearVars
    /\ UNCHANGED estimateVars
    /\ UNCHANGED formatVars

\* save_raw_data(data, "output/raw.json")
MainSaveRaw ==
    /\ main_pc = "fetched"
    /\ raw_file' = Some(api_response)
    /\ stdout' = Append(stdout, "Raw data saved")
    /\ main_pc' = "raw_saved"
    /\ UNCHANGED <<pc, api_response, interval, energy_data, idx,
                   processed_file>>
    /\ UNCHANGED rollVars
    /\ UNCHANGED yearVars
    /\ UNCHANGED estimateVars
    /\ UNCHANGED formatVars

\* process_monthly_energy_data(data, window_size=12)
MainProcess ==
    /\ main_pc = "raw_saved"
    /\ \E r \in {process_monthly_energy_data(api_response, DefaultWindow)} :
          /\ dates' = r.dates
          /\ fossil_shares' = r.fossil_shares
          /\ renewable_shares' = r.renewable_shares
    /\ window_size' = DefaultWindow
    /\ stdout' = Append(stdout, "Step 2: Processing monthly data")
    /\ main_pc' = "processed"
    /\ UNCHANGED <<pc, api_response, interval, energy_data, idx, raw_file,
                   processed_file>>
    /\ UNCHANGED yearVars
    /\ UNCHANGED estimateVars
    /\ UNCHANGED formatVars

\* not dates
NoDates_never(ds) == FALSE
NoDates(ds) == ds = <<>>

\* if not dates: print the error and return; otherwise go on to step 2b
MainCheck ==
    /\ main_pc = "processed"
    /\ IF NoDates(dates)
       THEN /\ stdout' = Append(stdout, "Error: No data was processed")
            /\ main_pc' = "returned"
       ELSE /\ stdout' = Append(stdout, "Step 2b: Calculating estimate")
            /\ main_pc' = "estimating"
    /\ UNCHANGED <<pc, api_response, interval, energy_data, idx, raw_file,
                   processed_file>>
    /\ UNCHANGED rollVars
    /\ UNCHANGED yearVars
    /\ UNCHANGED estimateVars
    /\ UNCHANGED formatVars

\* the call calculate_last_year_average(): its steps, taken while main
\* waits for it; an exception it raises ends main
MainReadClock == main_pc = "estimating" /\ ReadClock
MainComputeRange == main_pc = "estimating" /\ ComputeRange
MainFetchYear == main_pc = "estimating" /\ FetchYear
MainFilterWindow == main_pc = "estimating" /\ FilterWindow
MainPrintWindow == main_pc = "estimating" /\ PrintWindow
MainSumYear == main_pc = "estimating" /\ SumYear

\* f"{date.today().year:04d}-{date.today().month:02d}", read on the day
\* the estimate was made
current_month == Pad4(today[1]) \o <<Dash>> \o Pad2(today[2])

\* fossil_ytd, renewable_ytd returned; the three appends
MainAppend ==
    /\ main_pc = "estimating"
    /\ pc = "estimated"
    /\ dates' = Append(dates, current_month)
    /\ fossil_shares' = Append(fossil_shares, fossil_ytd)
    /\ renewable_shares' = Append(renewable_shares, renewable_ytd)
    /\ stdout' = Append(stdout, "Added estimate")
    /\ main_pc' = "appended"
    /\ UNCHANGED <<pc, api_response, interval, energy_data, idx, window_size,
                   raw_file, processed_file>>
    /\ UNCHANGED yearVars
    /\ UNCHANGED estimateVars
    /\ UNCHANGED formatVars

\* the id, the interval and the history block of the series object
create_data_series(series_id, ds, values) ==
    [id      |-> series_id,
     history |-> [start    |-> IF ds # <<>> THEN Some(ds[1]) ELSE None,
                  last     |-> IF ds # <<>> THEN Some(ds[Len(ds)]) ELSE None,
                  interval |-> "1M",
                  data     |->
                      [k \in 1..Len(values) |->
                          format_precision(values[k], DefaultSigFigs)]]]

\* the data list of the response written to the file
save_processed_data(ds, fossils, renewables) ==
    <<create_data_series("au.nem.fuel_tech_group.fossils.energy_share",
                         ds, fossils),
      create_data_series("au.nem.fuel_tech_group.renewables.energy_share",
                         ds, renewables)>>

\* save_processed_data(dates, fossil_shares, renewable_shares,
\* "output/processed.json", ...)
MainSaveProcessed ==
    /\ main_pc = "appended"
    /\ stdout' = Append(Append(stdout, "Step 3: Writing output"),
                        "Processed data saved")
    /\ processed_file' =
           Some(save_processed_data(dates, fossil_shares, renewable_shares))
    /\ main_pc' = "saved"
    /\ UNCHANGED <<pc, api_response, interval, energy_data, idx, raw_file>>
    /\ UNCHANGED rollVars
    /\ UNCHANGED yearVars
    /\ UNCHANGED estimateVars
    /\ UNCHANGED formatVars

\* print_summary and the closing lines
MainFinish ==
    /\ main_pc = "saved"
    /\ stdout' = Append(stdout, "Processing complete!")
    /\ main_pc' = "done"
    /\ UNCHANGED <<pc, api_response, interval, energy_data, idx, raw_file,
                   processed_file>>
    /\ UNCHANGED rollVars
    /\ UNCHANGED yearVars
    /\ UNCHANGED estimateVars
    /\ UNCHANGED formatVars

NextMain ==
    \/ MainFetch
    \/ MainSaveRaw
    \/ MainProcess
    \/ MainCheck
    \/ MainReadClock
    \/ MainComputeRange
    \/ MainFetchYear
    \/ MainFilterWindow
    \/ MainPrintWindow
    \/ MainSumYear
    \/ MainAppend
    \/ MainSaveProcessed
    \/ MainFinish

SpecMain == Init /\ [][NextMain]_vars

\* the place of a line in what main has printed, 0 when it is not there
Printed(line) ==
    IF \E k \in 1..Len(stdout) : stdout[k] = line
    THEN CHOOSE k \in 1..Len(stdout) : stdout[k] = line
    ELSE 0

\* the rolling result of the payload main fetched
RollingDates == process_monthly_energy_data(api_response, DefaultWindow).dates

\* main is past its test of the rolling result
PastCheck ==
    main_pc \in {"returned", "estimating", "appended", "saved", "done"}

(* C13: in every run of main, when processing the monthly payload yields no *)
(* rolling result the run reports it and ends with the raw file written and *)
(* the processed file never written; the processed file is written only     *)
(* after the raw write, a non-empty rolling result and the trailing-year    *)
(* estimate, in that order.                                                 *)
C13_WriteOrder ==
    \A rolled \in {IF PastCheck THEN RollingDates ELSE <<>>} :
        /\ (PastCheck /\ rolled = <<>>)
              => /\ main_pc = "returned"
                 /\ Printed("Error: No data was processed") = Len(stdout)
                 /\ 0 < Printed("Raw data saved")
                 /\ raw_file = Some(api_response)
                 /\ processed_file = NoFile
        /\ processed_file # NoFile
              => /\ PastCheck
                 /\ rolled # <<>>
                 /\ raw_file = Some(api_response)
                 /\ pc = "estimated"
                 /\ Len(dates) = Len(rolled) + 1
                 /\ 0 < Printed("Raw data saved")
                 /\ Printed("Raw data saved")
                        < Printed("Step 2: Processing monthly data")
                 /\ Printed("Step 2: Processing monthly data")
                        < Printed("Step 2b: Calculating estimate")
                 /\ Printed("Step 2b: Calculating estimate")
                        < Printed("Added estimate")
                 /\ Printed("Added estimate") < Printed("Processed data saved")
                 /\ Printed("Error: No data was processed") = 0

\* twelve months of zeros: no rolling result, reported, only the raw file
C13_Witness ==
    /\ main_pc = "returned"
    /\ Len(api_response[1].data) = DefaultWindow
    /\ dates = <<>>
    /\ raw_file = Some(api_response)
    /\ processed_file = NoFile
    /\ stdout[Len(stdout)] = "Error: No data was processed"

\* for comparison: a run that wrote the processed file
ProcessedWritten ==
    /\ main_pc = "done"
    /\ processed_file # NoFile
    /\ raw_file # NoFile

\* the month a 'YYYY-MM' label names, counted in months
LabelOrdinal(label) ==
    12 * (1000 * (label[1] - 48) + 100 * (label[2] - 48)
              + 10 * (label[3] - 48) + (label[4] - 48))
        + 10 * (label[6] - 48) + (label[7] - 48) - 1

(* C14: each history block written to the processed file is consistent with *)
(* its '1M' interval: after the current-month estimate is appended the      *)
(* period labels are strictly ascending with no duplicate, and the data     *)
(* list has one value for every calendar month from start to last, so that  *)
(* data[k] is the value of month start + k; also with calendar gaps, with a *)
(* skipped zero-total window and with a payload that holds the current      *)
(* month.                                                                   *)
C14_HistoryMatchesInterval ==
    processed_file # NoFile =>
        \A j \in 1..Len(processed_file[1]) :
            \A h \in {processed_file[1][j].history} :
                /\ h.interval = "1M"
                /\ \A k \in 1..(Len(dates) - 1) :
                       LabelOrdinal(dates[k]) < LabelOrdinal(dates[k + 1])
                /\ Len(h.data) =
                       LabelOrdinal(h.last[1]) - LabelOrdinal(h.start[1]) + 1
                /\ \A k \in 1..Len(dates) :
                       LabelOrdinal(dates[k])
                           = LabelOrdinal(h.start[1]) + k - 1

\* the payload ends in January 2024 and today is 1 January 2024: the label
\* 2024-01 is written twice, three values for the two months from 2023-12
C14_Witness ==
    /\ processed_file # NoFile
    /\ today = <<2024, 1, 1>>
    /\ dates = <<format_date(2023, 12), format_date(2024, 1),
                 format_date(2024, 1)>>
    /\ Len(processed_file[1][1].history.data) = 3
    /\ processed_file[1][1].history.start = Some(format_date(2023, 12))
    /\ processed_file[1][1].history.last = Some(format_date(2024, 1))

\* for comparison: the block mirrors the three lists main holds
HistoryMirrorsLists ==
    processed_file # NoFile =>
        \A j \in 1..Len(processed_file[1]) :
            \A h \in {processed_file[1][j].history} :
                /\ h.start = Some(dates[1])
                /\ h.last = Some(dates[Len(dates)])
                /\ Len(h.data) = Len(dates)

\* for comparison: a run whose labels are consecutive months
ConsecutiveLabelsWritten ==
    /\ processed_file # NoFile
    /\ dates = <<format_date(2023, 12), format_date(2024, 1)>>

\* a label list with a gap of months: 2023-12, 2024-02, then 2025-03
GapLabelsWritten ==
    /\ processed_file # NoFile
    /\ dates = <<format_date(2023, 12), format_date(2024, 2),
                 format_date(2025, 3)>>

====
